---------------------------- MODULE Spec2Model ----------------------------
(***************************************************************************)
(* A model of CNN-golang/cnn.go: the forward pass of a small convolutional *)
(* network (ConvLayer, MaxPoolLayer, FlattenLayer, DenseLayer, pad2D, relu *)
(* and the pipeline assembled by main).                                    *)
(*                                                                         *)
(* Go slices are modelled as functions over 0..n-1, so every index of the  *)
(* source keeps its value.  A [][]float64 grid and a []float64 vector are  *)
(* objects of a heap (address -> contents): a tensor [][][]float64 is a    *)
(* function from channel index to the address of its grid.  This keeps the *)
(* one alias the code creates visible: pad2D with padding 0 hands back the *)
(* caller's grid, not a copy.                                              *)
(*                                                                         *)
(* float64 values are modelled by integers with exact arithmetic: rounding *)
(* of floating-point sums, infinities and NaN are outside the model.       *)
(*                                                                         *)
(* A Go run-time panic is an outcome of a call: the status of the result   *)
(* is the panic's message instead of "ok" and no value is returned.        *)
(***************************************************************************)
EXTENDS Integers, Sequences, FiniteSets

VARIABLES
    heap,   \* the allocated grids and vectors, by address (1..Len(heap))
    cl,     \* the ConvLayer under call: Filters, Biases, Stride, Padding
    mpl,    \* the MaxPoolLayer under call: PoolSize, Stride
    dl,     \* the DenseLayer under call: Weights, Biases
    x,      \* the tensor held by the caller: channel -> address of its grid
    vec,    \* the vector held by the caller: an address
    padding,\* the padding amount of a direct pad2D call
    ret,    \* the outcome of the last call: [status, val]
    op,     \* the last operation called ("none" before the first call)
    calls,  \* the number of calls made so far
    rng,    \* the process-wide random generator: [seed, pos]
    pc,     \* main's next statement ("off" outside main)
    net,    \* main's layers: conv1, pool1, conv2, pool2, dense1, dense2
    stdout  \* the lines main has printed

vars == <<heap, cl, mpl, dl, x, vec, padding, ret, op, calls, rng, pc, net, stdout>>

-----------------------------------------------------------------------------
(* Bounds of the model. *)

MaxDim == 3
MaxChan == 2
MaxKernel == 2
MaxStride == 2
MaxPad == 1
MaxCalls == 3
MaxSeed == 3

-----------------------------------------------------------------------------
(* Go values. *)

OK == "ok"
\* The two error outcomes the specification names; no statement of cnn.go
\* produces either.
ShapeMismatch == "shape-mismatch error"
InvalidConfiguration == "invalid-configuration error"
IndexOutOfRange == "panic: runtime error: index out of range"
DivideByZero == "panic: runtime error: integer divide by zero"
MakesliceLen == "panic: runtime error: makeslice: len out of range"

\* len(s) of a slice modelled as a function over 0..n-1.
len(s) == Cardinality(DOMAIN s)

\* make([]T, n) filled with the element e(i); n >= 0.
Make(n, e(_)) == [i \in 0..(n - 1) |-> e(i)]

\* Go's integer division truncates toward zero; b # 0.
GoDiv(a, b) ==
    LET q == (IF a < 0 THEN -a ELSE a) \div (IF b < 0 THEN -b ELSE b)
    IN  IF (a < 0) = (b < 0) THEN q ELSE -q

Min(a, b) == IF a < b THEN a ELSE b

\* A new object on the heap; its address is Len of the new heap.
Alloc(h, obj) == Append(h, obj)

\* The outcome of a call that panicked: no value, the heap as the caller saw it.
Panic(h, msg) == [status |-> msg, heap |-> h, val |-> << >>]

Return(h, v) == [status |-> OK, heap |-> h, val |-> v]

-----------------------------------------------------------------------------
(* relu and pad2D. *)

relu(v) == IF v > 0 THEN v ELSE 0

\* The mutant of copy: the row is copied to the start of the padded row.
copyNoOffset(dst, off, src) ==
    LET n == Min(len(dst), len(src))
    IN  [j \in DOMAIN dst |-> IF j < n THEN src[j] ELSE dst[j]]

\* copy(dst[off:], src): min(len(dst) - off, len(src)) elements are copied.
copy(dst, off, src) ==
    LET n == Min(len(dst) - off, len(src))
    IN  [j \in DOMAIN dst |-> IF j >= off /\ j - off < n THEN src[j - off] ELSE dst[j]]

\* pad2D(input, padding), input the address g of a grid.  With padding = 0
\* the result is the address g itself; otherwise a new grid is allocated.
pad2D(h, g, p) ==
    IF p = 0 THEN Return(h, g)
    ELSE IF len(h[g]) = 0 THEN Panic(h, IndexOutOfRange)           \* input[0]
    ELSE
      LET input == h[g]
          hh == len(input)
          w == len(input[0])
      IN  IF hh + 2 * p < 0 THEN Panic(h, MakesliceLen)
          ELSE IF hh + 2 * p > 0 /\ w + 2 * p < 0 THEN Panic(h, MakesliceLen)
          ELSE IF p < 0 THEN Panic(h, IndexOutOfRange)         \* padded[0+padding]
          ELSE
            LET zero == Make(hh + 2 * p, LAMBDA i : Make(w + 2 * p, LAMBDA j : 0))
                padded == [i \in DOMAIN zero |->
                              IF i - p \in 0..(hh - 1)
                              THEN copy(zero[i], p, input[i - p])
                              ELSE zero[i]]
            IN  Return(Alloc(h, padded), Len(h) + 1)

-----------------------------------------------------------------------------
(* ConvLayer.Forward. *)

\* sum over i = 0..n-1 of term(i), accumulated in index order from 0.
RECURSIVE SumTo(_, _)
SumTo(t, n) == IF n <= 0 THEN 0 ELSE SumTo(t, n - 1) + t[n - 1]

Sum(n, term(_)) == SumTo([i \in 0..(n - 1) |-> term(i)], n)

\* n new objects obj(0..n-1) on the heap, at addresses Len(h)+1 .. Len(h)+n.
AllocAll(h, n, obj(_)) == h \o [i \in 1..n |-> obj(i - 1)]

\* The mutant of ConvOutDim: the padding is left out of the output size.
ConvOutDimNoPadding(n, p, k, s) == GoDiv(n - k, s) + 1

\* outH := (inputH + 2*cl.Padding - kernelH)/cl.Stride + 1; s # 0.
ConvOutDim(n, p, k, s) == GoDiv(n + 2 * p - k, s) + 1

\* padded[c] = pad2D(input[c], cl.Padding) for c = 0..n-1, in order.
RECURSIVE PadUpTo(_, _, _, _)
PadUpTo(h, input, p, n) ==
    IF n = 0 THEN Return(h, << >>)
    ELSE LET prev == PadUpTo(h, input, p, n - 1)
         IN  IF prev.status # OK THEN prev
             ELSE LET r == pad2D(prev.heap, input[n - 1], p)
                  IN  IF r.status # OK THEN Panic(h, r.status)
                      ELSE Return(r.heap, [c \in 0..(n - 1) |->
                                      IF c = n - 1 THEN r.val ELSE prev.val[c]])

\* The mutant of PadChannels: the padded grids are clamped at zero in place
\* before the convolution reads them.
PadChannelsClampedInPlace(h, input, p) ==
    LET r == PadUpTo(h, input, p, len(input))
    IN  IF r.status # OK THEN r
        ELSE LET refs == {r.val[c] : c \in DOMAIN r.val}
             IN  Return([a \in DOMAIN r.heap |->
                            IF a \in refs
                            THEN [i \in DOMAIN r.heap[a] |->
                                    [j \in DOMAIN r.heap[a][i] |-> relu(r.heap[a][i][j])]]
                            ELSE r.heap[a]],
                        r.val)

PadChannels(h, input, p) == PadUpTo(h, input, p, len(input))

\* Every index the convolution loops read lies inside its slice.
ConvInBounds(h, layer, padded, outH, outW) ==
    LET kernelH == len(layer.Filters[0][0])
        kernelW == len(layer.Filters[0][0][0])
    IN  \A f \in 0..(len(layer.Filters) - 1), y \in 0..(outH - 1), xx \in 0..(outW - 1) :
          /\ \A c \in 0..(len(padded) - 1), ky \in 0..(kernelH - 1), kx \in 0..(kernelW - 1) :
               /\ y * layer.Stride + ky \in DOMAIN h[padded[c]]
               /\ xx * layer.Stride + kx \in DOMAIN h[padded[c]][y * layer.Stride + ky]
               /\ c \in DOMAIN layer.Filters[f]
               /\ ky \in DOMAIN layer.Filters[f][c]
               /\ kx \in DOMAIN layer.Filters[f][c][ky]
          /\ f \in DOMAIN layer.Biases

\* The mutant of ConvCell: the bias is not added.
ConvCellNoBias(h, layer, padded, f, y, xx) ==
    relu(Sum(len(padded), LAMBDA c :
           Sum(len(layer.Filters[0][0]), LAMBDA ky :
             Sum(len(layer.Filters[0][0][0]), LAMBDA kx :
               h[padded[c]][y * layer.Stride + ky][xx * layer.Stride + kx]
                 * layer.Filters[f][c][ky][kx]))))

\* output[f][y][x]: the sum over c, ky, kx in loop order, plus the bias, in relu.
ConvCell(h, layer, padded, f, y, xx) ==
    relu(Sum(len(padded), LAMBDA c :
           Sum(len(layer.Filters[0][0]), LAMBDA ky :
             Sum(len(layer.Filters[0][0][0]), LAMBDA kx :
               h[padded[c]][y * layer.Stride + ky][xx * layer.Stride + kx]
                 * layer.Filters[f][c][ky][kx])))
         + layer.Biases[f])

ConvLayer_Forward(h, layer, input) ==
    LET numFilters == len(layer.Filters)
    IN
    IF numFilters = 0 \/ len(layer.Filters[0]) = 0
      THEN Panic(h, IndexOutOfRange)                         \* cl.Filters[0][0]
    ELSE IF len(layer.Filters[0][0]) = 0
      THEN Panic(h, IndexOutOfRange)                         \* cl.Filters[0][0][0]
    ELSE IF len(input) = 0 THEN Panic(h, IndexOutOfRange)    \* input[0]
    ELSE IF len(h[input[0]]) = 0 THEN Panic(h, IndexOutOfRange)  \* input[0][0]
    ELSE IF layer.Stride = 0 THEN Panic(h, DivideByZero)
    ELSE
      LET kernelH == len(layer.Filters[0][0])
          kernelW == len(layer.Filters[0][0][0])
          inputH == len(h[input[0]])
          inputW == len(h[input[0]][0])
          outH == ConvOutDim(inputH, layer.Padding, kernelH, layer.Stride)
          outW == ConvOutDim(inputW, layer.Padding, kernelW, layer.Stride)
      IN
      IF outH < 0 THEN Panic(h, MakesliceLen)                \* make([][]float64, outH)
      ELSE IF outH > 0 /\ outW < 0 THEN Panic(h, MakesliceLen)   \* make([]float64, outW)
      ELSE
        LET h1 == AllocAll(h, numFilters, LAMBDA f : Make(outH, LAMBDA i : Make(outW, LAMBDA j : 0)))
            pad == PadChannels(h1, input, layer.Padding)
        IN
        IF pad.status # OK THEN Panic(h, pad.status)
        ELSE IF ~ConvInBounds(pad.heap, layer, pad.val, outH, outW)
          THEN Panic(h, IndexOutOfRange)
        ELSE
          Return([a \in DOMAIN pad.heap |->
                    IF a \in (Len(h) + 1)..(Len(h) + numFilters)
                    THEN Make(outH, LAMBDA y : Make(outW, LAMBDA xx :
                            ConvCell(pad.heap, layer, pad.val, a - Len(h) - 1, y, xx)))
                    ELSE pad.heap[a]],
                 [f \in 0..(numFilters - 1) |-> Len(h) + 1 + f])

-----------------------------------------------------------------------------
(* MaxPoolLayer.Forward. *)

\* outH := (h - mpl.PoolSize)/mpl.Stride + 1; s # 0.
PoolOutDim(n, k, s) == GoDiv(n - k, s) + 1

\* The mutant of WindowMax: the comparison is turned round.
RECURSIVE WindowMin(_, _, _, _, _)
WindowMin(g, yStart, xStart, k, n) ==
    IF n <= 0 THEN g[yStart][xStart]
    ELSE LET maxVal == WindowMin(g, yStart, xStart, k, n - 1)
             val == g[yStart + ((n - 1) \div k)][xStart + ((n - 1) % k)]
         IN  IF val < maxVal THEN val ELSE maxVal

\* maxVal after the first n steps of the ky, kx loops over the k x k window:
\* it starts at input[c][yStart][xStart] and takes every val > maxVal.
RECURSIVE WindowMax(_, _, _, _, _)
WindowMax(g, yStart, xStart, k, n) ==
    IF n <= 0 THEN g[yStart][xStart]
    ELSE LET maxVal == WindowMax(g, yStart, xStart, k, n - 1)
             val == g[yStart + ((n - 1) \div k)][xStart + ((n - 1) % k)]
         IN  IF val > maxVal THEN val ELSE maxVal

\* Every index the pooling loops read lies inside its slice.
PoolInBounds(h, layer, input, outH, outW) ==
    \A c \in 0..(len(input) - 1), y \in 0..(outH - 1), xx \in 0..(outW - 1) :
      /\ y * layer.Stride \in DOMAIN h[input[c]]
      /\ xx * layer.Stride \in DOMAIN h[input[c]][y * layer.Stride]
      /\ \A ky \in 0..(layer.PoolSize - 1), kx \in 0..(layer.PoolSize - 1) :
           /\ y * layer.Stride + ky \in DOMAIN h[input[c]]
           /\ xx * layer.Stride + kx \in DOMAIN h[input[c]][y * layer.Stride + ky]

\* The number of steps of the ky, kx loops: none for a pool size <= 0.
PoolSteps(k) == IF k > 0 THEN k * k ELSE 0

\* output[c][y][x].
PoolCell(h, layer, input, c, y, xx) ==
    WindowMax(h[input[c]], y * layer.Stride, xx * layer.Stride,
              layer.PoolSize, PoolSteps(layer.PoolSize))

MaxPoolLayer_Forward(h, layer, input) ==
    LET channels == len(input)
    IN
    IF channels = 0 THEN Panic(h, IndexOutOfRange)                \* input[0]
    ELSE IF len(h[input[0]]) = 0 THEN Panic(h, IndexOutOfRange)   \* input[0][0]
    ELSE IF layer.Stride = 0 THEN Panic(h, DivideByZero)
    ELSE
      LET hh == len(h[input[0]])
          w == len(h[input[0]][0])
          outH == PoolOutDim(hh, layer.PoolSize, layer.Stride)
          outW == PoolOutDim(w, layer.PoolSize, layer.Stride)
      IN
      IF outH < 0 THEN Panic(h, MakesliceLen)
      ELSE IF outH > 0 /\ outW < 0 THEN Panic(h, MakesliceLen)
      ELSE IF ~PoolInBounds(h, layer, input, outH, outW) THEN Panic(h, IndexOutOfRange)
      ELSE
        Return(AllocAll(h, channels, LAMBDA c :
                 Make(outH, LAMBDA y : Make(outW, LAMBDA xx :
                   PoolCell(h, layer, input, c, y, xx)))),
               [c \in 0..(channels - 1) |-> Len(h) + 1 + c])

-----------------------------------------------------------------------------
(* FlattenLayer.Forward. *)

\* A slice as the sequence of its elements.
Elems(row) == [k \in 1..len(row) |-> row[k - 1]]

\* The mutant of RowsInOrder: the rows are visited last to first.
RECURSIVE RowsReversed(_, _)
RowsReversed(g, n) ==
    IF n = 0 THEN << >> ELSE Elems(g[n - 1]) \o RowsReversed(g, n - 1)

\* The cells visited by the y and x loops over the first n rows of a channel.
RECURSIVE RowsInOrder(_, _)
RowsInOrder(g, n) ==
    IF n = 0 THEN << >> ELSE RowsInOrder(g, n - 1) \o Elems(g[n - 1])

\* The cells visited by the c, y, x loops over the first n channels.
RECURSIVE ChannelsInOrder(_, _, _)
ChannelsInOrder(h, input, n) ==
    IF n = 0 THEN << >>
    ELSE ChannelsInOrder(h, input, n - 1) \o RowsInOrder(h[input[n - 1]], len(h[input[n - 1]]))

FlattenLayer_Forward(h, input) ==
    IF len(input) = 0 THEN Panic(h, IndexOutOfRange)                \* input[0]
    ELSE IF len(h[input[0]]) = 0 THEN Panic(h, IndexOutOfRange)     \* input[0][0]
    ELSE
      LET size == len(input) * len(h[input[0]]) * len(h[input[0]][0])
          visited == ChannelsInOrder(h, input, len(input))
      IN  IF Len(visited) > size THEN Panic(h, IndexOutOfRange)     \* output[i]
          ELSE Return(Alloc(h, Make(size, LAMBDA i :
                                 IF i < Len(visited) THEN visited[i + 1] ELSE 0)),
                      Len(h) + 1)

-----------------------------------------------------------------------------
(* DenseLayer.Forward. *)

\* The mutant of DenseCell: the bias is added after the activation.
DenseCellBiasAfterRelu(layer, input, i) ==
    relu(Sum(len(input), LAMBDA j : layer.Weights[i][j] * input[j])) + layer.Biases[i]

\* output[i]: the bias, plus weight * input for j in order, in relu.
DenseCell(layer, input, i) ==
    relu(layer.Biases[i] + Sum(len(input), LAMBDA j : layer.Weights[i][j] * input[j]))

\* Every index the loops read lies inside its slice.
DenseInBounds(layer, input) ==
    \A i \in 0..(len(layer.Biases) - 1), j \in 0..(len(input) - 1) :
      i \in DOMAIN layer.Weights /\ j \in DOMAIN layer.Weights[i]

DenseLayer_Forward(h, layer, v) ==
    IF ~DenseInBounds(layer, h[v]) THEN Panic(h, IndexOutOfRange)
    ELSE Return(Alloc(h, Make(len(layer.Biases), LAMBDA i : DenseCell(layer, h[v], i))),
                Len(h) + 1)

-----------------------------------------------------------------------------
(* The inputs of the model: grids, tensors and parameters drawn from a     *)
(* seed.  Seed 0 is the all-ones data of the specification's scenarios;    *)
(* the seeds of Seeds give mixed values in -3..3.                          *)

Seeds == {1, 2}

FilterCounts == {1, 2}

Sample(s, k) == IF s = 0 THEN 1 ELSE (((k + 1) * (s * s + 3 * s + 1) + s) % 7) - 3

GridOf(s, c, hh, w) == Make(hh, LAMBDA i : Make(w, LAMBDA j : Sample(s, (c * hh + i) * w + j)))

-----------------------------------------------------------------------------
(* Direct calls of pad2D. *)

Idle(t, v, p, at) ==
    /\ x = t /\ vec = v
    /\ padding = p
    /\ ret = [status |-> OK, val |-> << >>]
    /\ op = "none" /\ calls = 0
    /\ rng = [seed |-> 0, pos |-> 0]
    /\ pc = at
    /\ net = << >> /\ stdout = << >>

InitPad ==
    \E s \in Seeds, hh \in 1..MaxDim, w \in 1..MaxDim, p \in (-1)..(MaxPad + 1) :
        /\ heap = <<GridOf(s, 0, hh, w)>>
        /\ Idle([c \in 0..0 |-> 1], 0, p, "off")
        /\ cl = << >> /\ mpl = << >> /\ dl = << >>

CallPad2D ==
    /\ pc = "off" /\ calls = 0
    /\ LET r == pad2D(heap, x[0], padding)
       IN  /\ heap' = r.heap
           /\ ret' = [status |-> r.status, val |-> r.val]
    /\ op' = "pad2D"
    /\ calls' = calls + 1
    /\ UNCHANGED <<cl, mpl, dl, x, vec, padding, rng, pc, net, stdout>>

SpecPad == InitPad /\ [][CallPad2D]_vars

(* C9: for every rectangular h x w grid and padding p >= 0, pad2D returns  *)
(* a grid of h+2p rows and w+2p columns with padded[p+i][p+j] =            *)
(* original[i][j] and 0 in every other cell; for p = 0 the result equals   *)
(* the input grid.                                                         *)
Pad2DCorrect ==
    (op = "pad2D" /\ padding >= 0) =>
      /\ ret.status = OK
      /\ LET original == heap[x[0]]
             padded == heap[ret.val]
             hh == len(original)
             w == len(original[0])
         IN  /\ DOMAIN padded = 0..(hh + 2 * padding - 1)
             /\ \A i \in DOMAIN padded :
                  /\ DOMAIN padded[i] = 0..(w + 2 * padding - 1)
                  /\ \A j \in DOMAIN padded[i] :
                       padded[i][j] =
                         IF i - padding \in 0..(hh - 1) /\ j - padding \in 0..(w - 1)
                         THEN original[i - padding][j - padding] ELSE 0
             /\ padding = 0 => padded = original

Pad2DPadded ==
    /\ op = "pad2D" /\ padding = 1 /\ ret.status = OK
    /\ len(heap[x[0]]) = 2 /\ len(heap[x[0]][0]) = 3
    /\ heap[x[0]][1][2] # 0
    /\ heap[ret.val][2][3] = heap[x[0]][1][2]

-----------------------------------------------------------------------------
(* Calls of ConvLayer.Forward. *)

\* A tensor of c channels of hh x w cells on a fresh heap.
TensorHeap(s, c, hh, w) == [a \in 1..c |-> GridOf(s, a - 1, hh, w)]

TensorRefs(c) == [i \in 0..(c - 1) |-> i + 1]

\* A filter bank of the given shape; seed 0 is the all-ones bank.
FiltersOf(s, num, channels, height, width) ==
    Make(num, LAMBDA f : Make(channels, LAMBDA c : Make(height, LAMBDA ky :
      Make(width, LAMBDA kx : Sample(s, ((f * channels + c) * height + ky) * width + kx + f)))))

\* Seed 0 is the zero bias of the specification's scenarios.
BiasesOf(s, n) == Make(n, LAMBDA i : IF s = 0 THEN 0 ELSE Sample(s, i + 2))

\* The scenario of the specification: a 1-channel 4x4 input of all ones, one
\* 3x3 filter of all ones, bias 0, stride 1, padding 1.
ScenarioConv ==
    /\ heap = TensorHeap(0, 1, 4, 4)
    /\ Idle(TensorRefs(1), 0, 0, "off")
    /\ cl = [Filters |-> FiltersOf(0, 1, 1, 3, 3), Biases |-> BiasesOf(0, 1),
             Stride |-> 1, Padding |-> 1]
    /\ mpl = << >> /\ dl = << >>

InitConv ==
    \/ ScenarioConv
    \/ \E s \in Seeds, c \in 1..MaxChan, hh \in 1..MaxDim, w \in 1..MaxDim,
          num \in FilterCounts, kh \in 1..MaxKernel, kw \in 1..MaxKernel,
          stride \in 1..MaxStride, p \in 0..MaxPad :
           /\ heap = TensorHeap(s, c, hh, w)
           /\ Idle(TensorRefs(c), 0, 0, "off")
           /\ cl = [Filters |-> FiltersOf(s, num, c, kh, kw), Biases |-> BiasesOf(s, num),
                    Stride |-> stride, Padding |-> p]
           /\ mpl = << >> /\ dl = << >>

CallConv ==
    /\ pc = "off" /\ calls < MaxCalls /\ cl # << >>
    /\ LET r == ConvLayer_Forward(heap, cl, x)
       IN  /\ heap' = r.heap
           /\ ret' = [status |-> r.status, val |-> r.val]
    /\ op' = "conv"
    /\ calls' = calls + 1
    /\ UNCHANGED <<cl, mpl, dl, x, vec, padding, rng, pc, net, stdout>>

NextConv == calls = 0 /\ CallConv

SpecConv == InitConv /\ [][NextConv]_vars


\* The zero-padded input, stated in closed form.
PaddedAt(g, p, i, j) ==
    IF i - p \in DOMAIN g /\ j - p \in DOMAIN g[i - p] THEN g[i - p][j - p] ELSE 0

\* The sum of the values of a function with a finite domain, in any order.
RECURSIVE SumOfAll(_)
SumOfAll(t) ==
    IF DOMAIN t = {} THEN 0
    ELSE LET k == CHOOSE k \in DOMAIN t : TRUE
         IN  t[k] + SumOfAll([i \in DOMAIN t \ {k} |-> t[i]])

ConvValid ==
    /\ len(cl.Filters[0]) = len(x)
    /\ cl.Stride >= 1 /\ cl.Padding >= 0
    /\ len(heap[x[0]]) + 2 * cl.Padding >= len(cl.Filters[0][0])
    /\ len(heap[x[0]][0]) + 2 * cl.Padding >= len(cl.Filters[0][0][0])

IsScenarioConv ==
    /\ len(x) = 1 /\ len(heap[x[0]]) = 4
    /\ \A i \in 0..3 : heap[x[0]][i] = [j \in 0..3 |-> 1]
    /\ cl = [Filters |-> [f \in 0..0 |-> [c \in 0..0 |-> [ky \in 0..2 |-> [kx \in 0..2 |-> 1]]]],
             Biases |-> [f \in 0..0 |-> 0], Stride |-> 1, Padding |-> 1]

(* C1: for a layer whose filters have the input's channel count, stride    *)
(* >= 1, padding >= 0 and a kernel no larger than the padded input,        *)
(* ConvLayer.Forward returns one channel per filter, of height             *)
(* floor((H+2P-KH)/S)+1 and width floor((W+2P-KW)/S)+1, and every cell is  *)
(* max(0, bias + the sum over c, ky, kx of padded * filter), padded being  *)
(* the input with P zero cells on every side; in the 4x4 all-ones scenario *)
(* the corners are 4, the other edge cells 6 and the interior cells 9.     *)
ConvForwardCorrect ==
    (op = "conv" /\ ConvValid) =>
      LET C == len(x)
          H == len(heap[x[0]])
          W == len(heap[x[0]][0])
          KH == len(cl.Filters[0][0])
          KW == len(cl.Filters[0][0][0])
          S == cl.Stride
          P == cl.Padding
          outH == ((H + 2 * P - KH) \div S) + 1
          outW == ((W + 2 * P - KW) \div S) + 1
          out == ret.val
          Expected(f, y, xx) ==
              LET t == [k \in (0..(C - 1)) \X (0..(KH - 1)) \X (0..(KW - 1)) |->
                          PaddedAt(heap[x[k[1]]], P, y * S + k[2], xx * S + k[3])
                            * cl.Filters[f][k[1]][k[2]][k[3]]]
                  v == cl.Biases[f] + SumOfAll(t)
              IN  IF v >= 0 THEN v ELSE 0
      IN  /\ ret.status = OK
          /\ DOMAIN out = 0..(len(cl.Filters) - 1)
          /\ \A f \in DOMAIN out :
               /\ DOMAIN heap[out[f]] = 0..(outH - 1)
               /\ \A y \in 0..(outH - 1) :
                    /\ DOMAIN heap[out[f]][y] = 0..(outW - 1)
                    /\ \A xx \in 0..(outW - 1) : heap[out[f]][y][xx] = Expected(f, y, xx)
          /\ IsScenarioConv =>
               \A y \in 0..3, xx \in 0..3 :
                 heap[out[0]][y][xx] =
                   IF y \in {0, 3} /\ xx \in {0, 3} THEN 4
                   ELSE IF y \in {0, 3} \/ xx \in {0, 3} THEN 6 ELSE 9

ConvScenarioReached ==
    /\ op = "conv" /\ ConvValid /\ IsScenarioConv
    /\ ret.status = OK
    /\ heap[ret.val[0]][0][0] = 4 /\ heap[ret.val[0]][1][1] = 9

-----------------------------------------------------------------------------
(* Calls of MaxPoolLayer.Forward. *)

InitPool ==
    \E s \in Seeds, c \in 1..MaxChan, hh \in 1..MaxDim, w \in 1..MaxDim,
       k \in 1..MaxDim, stride \in 1..MaxStride :
        /\ heap = TensorHeap(s, c, hh, w)
        /\ Idle(TensorRefs(c), 0, 0, "off")
        /\ mpl = [PoolSize |-> k, Stride |-> stride]
        /\ cl = << >> /\ dl = << >>

CallPool ==
    /\ pc = "off" /\ calls < MaxCalls /\ mpl # << >>
    /\ LET r == MaxPoolLayer_Forward(heap, mpl, x)
       IN  /\ heap' = r.heap
           /\ ret' = [status |-> r.status, val |-> r.val]
    /\ op' = "pool"
    /\ calls' = calls + 1
    /\ UNCHANGED <<cl, mpl, dl, x, vec, padding, rng, pc, net, stdout>>

NextPool == calls = 0 /\ CallPool

SpecPool == InitPool /\ [][NextPool]_vars

PoolValid ==
    /\ mpl.PoolSize >= 1 /\ mpl.Stride >= 1
    /\ mpl.PoolSize <= len(heap[x[0]])
    /\ mpl.PoolSize <= len(heap[x[0]][0])

(* C5: for pool size K >= 1, stride S >= 1, K <= H and K <= W,             *)
(* MaxPoolLayer.Forward returns C channels of height floor((H-K)/S)+1 and  *)
(* width floor((W-K)/S)+1; every cell is a value of the K x K window       *)
(* of its channel at (y*S, x*S) and is >= every value of that window; and  *)
(* every index read lies inside the H x W input.                           *)
PoolForwardCorrect ==
    (op = "pool" /\ PoolValid) =>
      LET H == len(heap[x[0]])
          W == len(heap[x[0]][0])
          K == mpl.PoolSize
          S == mpl.Stride
          outH == ((H - K) \div S) + 1
          outW == ((W - K) \div S) + 1
          out == ret.val
          Window(c, y, xx) ==
              {heap[x[c]][y * S + ky][xx * S + kx] : ky \in 0..(K - 1), kx \in 0..(K - 1)}
      IN  /\ ret.status = OK
          /\ DOMAIN out = DOMAIN x
          /\ \A c \in DOMAIN out :
               /\ DOMAIN heap[out[c]] = 0..(outH - 1)
               /\ \A y \in 0..(outH - 1) :
                    /\ DOMAIN heap[out[c]][y] = 0..(outW - 1)
                    /\ \A xx \in 0..(outW - 1) :
                         /\ \A ky \in 0..(K - 1), kx \in 0..(K - 1) :
                              y * S + ky \in 0..(H - 1) /\ xx * S + kx \in 0..(W - 1)
                         /\ heap[out[c]][y][xx] \in Window(c, y, xx)
                         /\ \A v \in Window(c, y, xx) : heap[out[c]][y][xx] >= v

\* A call whose last window has its maximum away from its top-left corner.
PoolMaxInsideWindow ==
    /\ op = "pool" /\ PoolValid /\ ret.status = OK
    /\ mpl.PoolSize = 2 /\ mpl.Stride = 1 /\ len(x) = 2
    /\ len(heap[ret.val[1]]) = 2 /\ len(heap[ret.val[1]][0]) = 2
    /\ heap[ret.val[1]][1][1] > heap[x[1]][1][1]

-----------------------------------------------------------------------------
(* Calls of FlattenLayer.Forward. *)

InitFlatten ==
    \E s \in Seeds \cup {0}, c \in 0..MaxChan, hh \in 0..MaxDim, w \in 0..MaxDim :
        /\ heap = TensorHeap(s, c, hh, w)
        /\ Idle(TensorRefs(c), 0, 0, "off")
        /\ cl = << >> /\ mpl = << >> /\ dl = << >>

CallFlatten ==
    /\ pc = "off" /\ calls < MaxCalls
    /\ LET r == FlattenLayer_Forward(heap, x)
       IN  /\ heap' = r.heap
           /\ ret' = [status |-> r.status, val |-> r.val]
    /\ op' = "flatten"
    /\ calls' = calls + 1
    /\ UNCHANGED <<cl, mpl, dl, x, vec, padding, rng, pc, net, stdout>>

NextFlatten == calls = 0 /\ CallFlatten

SpecFlatten == InitFlatten /\ [][NextFlatten]_vars

Unflatten(v, C, H, W) ==
    [c \in 0..(C - 1) |-> [y \in 0..(H - 1) |-> [xx \in 0..(W - 1) |->
        v[c * H * W + y * W + xx]]]]

(* C6: for a rectangular tensor of C channels of size H x W,               *)
(* FlattenLayer.Forward returns a vector of length C*H*W with              *)
(* output[c*H*W + y*W + x] = input[c][y][x]; un-flattening it with the     *)
(* known (C, H, W) gives back the tensor.                                  *)
FlattenCorrect ==
    (op = "flatten" /\ len(x) >= 1 /\ len(heap[x[0]]) >= 1) =>
      LET C == len(x)
          H == len(heap[x[0]])
          W == len(heap[x[0]][0])
      IN  /\ ret.status = OK
          /\ DOMAIN heap[ret.val] = 0..(C * H * W - 1)
          /\ \A c \in 0..(C - 1), y \in 0..(H - 1), xx \in 0..(W - 1) :
               heap[ret.val][c * H * W + y * W + xx] = heap[x[c]][y][xx]
          /\ Unflatten(heap[ret.val], C, H, W) = [c \in 0..(C - 1) |-> heap[x[c]]]

FlattenedTwoChannels ==
    /\ op = "flatten" /\ ret.status = OK
    /\ len(x) = 2 /\ len(heap[x[0]]) = 2 /\ len(heap[x[0]][0]) = 3
    /\ len(heap[ret.val]) = 12
    /\ heap[ret.val][10] = heap[x[1]][1][1]
    /\ heap[x[1]][1][1] # heap[x[1]][1][0]

-----------------------------------------------------------------------------
(* Calls of DenseLayer.Forward. *)

WeightsOf(s, rows, cols) ==
    Make(rows, LAMBDA i : Make(cols, LAMBDA j : Sample(s, i * cols + j + 3)))

VectorOf(s, n) == Make(n, LAMBDA j : Sample(s, 2 * j))

Identity2 == [i \in 0..1 |-> [j \in 0..1 |-> IF i = j THEN 1 ELSE 0]]

\* The general calls: the input's length and the weight matrix's column count
\* are chosen apart.  The scenario of the specification: the 2x2 identity
\* weight matrix with zero bias.
InitDense ==
    /\ Idle(<< >>, 1, 0, "off")
    /\ cl = << >> /\ mpl = << >>
    /\ \/ \E s \in Seeds, rows \in 1..MaxDim, cols \in 0..MaxDim, n \in 0..MaxDim :
            /\ heap = <<VectorOf(s, n)>>
            /\ dl = [Weights |-> WeightsOf(s, rows, cols), Biases |-> BiasesOf(s, rows)]
       \/ \E v \in [0..1 -> (-1)..2] :
            /\ heap = <<v>>
            /\ dl = [Weights |-> Identity2, Biases |-> BiasesOf(0, 2)]

CallDense ==
    /\ pc = "off" /\ calls < MaxCalls /\ dl # << >>
    /\ LET r == DenseLayer_Forward(heap, dl, vec)
       IN  /\ heap' = r.heap
           /\ ret' = [status |-> r.status, val |-> r.val]
    /\ op' = "dense"
    /\ calls' = calls + 1
    /\ UNCHANGED <<cl, mpl, dl, x, vec, padding, rng, pc, net, stdout>>

NextDense == calls = 0 /\ CallDense

SpecDense == InitDense /\ [][NextDense]_vars

DenseValid ==
    /\ len(dl.Weights) = len(dl.Biases)
    /\ \A i \in DOMAIN dl.Weights : len(dl.Weights[i]) = len(heap[vec])

(* C7: for an N x M weight matrix, N biases and an input of length M,      *)
(* DenseLayer.Forward returns a vector of length N with                    *)
(* output[i] = max(0, Biases[i] + sum over j of Weights[i][j] * input[j]); *)
(* with the 2x2 identity matrix and zero bias the output equals every      *)
(* input whose entries are non-negative.                                   *)
DenseForwardCorrect ==
    (op = "dense" /\ DenseValid) =>
      LET input == heap[vec]
          Expected(i) ==
              LET v == dl.Biases[i]
                         + SumOfAll([j \in DOMAIN input |-> dl.Weights[i][j] * input[j]])
              IN  IF v >= 0 THEN v ELSE 0
      IN  /\ ret.status = OK
          /\ DOMAIN heap[ret.val] = 0..(len(dl.Biases) - 1)
          /\ \A i \in DOMAIN heap[ret.val] : heap[ret.val][i] = Expected(i)
          /\ (/\ dl.Weights = Identity2
              /\ dl.Biases = [i \in 0..1 |-> 0]
              /\ \A j \in DOMAIN input : input[j] >= 0)
             => heap[ret.val] = input

DenseIdentityReached ==
    /\ op = "dense" /\ DenseValid /\ ret.status = OK
    /\ dl.Weights = Identity2 /\ dl.Biases = [i \in 0..1 |-> 0]
    /\ heap[vec] = [j \in 0..1 |-> j + 1]
    /\ heap[ret.val] = heap[vec]

(* C3: whenever the input vector's length differs from the weight matrix's *)
(* column count, DenseLayer.Forward fails with a shape-mismatch error: it  *)
(* returns no vector, ignores no weight column and indexes no weight row   *)
(* past its end.                                                           *)
DenseMismatchRejected ==
    (op = "dense" /\ len(heap[vec]) # len(dl.Weights[0])) => ret.status = ShapeMismatch

-----------------------------------------------------------------------------
(* Calls of ConvLayer.Forward with a valid configuration and any two       *)
(* channel counts, of the input and of the filter bank.                    *)

ShapeDims == 1..2

InitChannels ==
    /\ mpl = << >> /\ dl = << >>
    /\ \E s \in Seeds, c \in ShapeDims, fc \in ShapeDims, hh \in ShapeDims, w \in ShapeDims,
          kh \in ShapeDims, kw \in ShapeDims, p \in 0..1 :
         /\ heap = TensorHeap(s, c, hh, w)
         /\ Idle(TensorRefs(c), 0, 0, "off")
         /\ cl = [Filters |-> FiltersOf(s, 1, fc, kh, kw), Biases |-> BiasesOf(s, 1),
                  Stride |-> 1, Padding |-> p]

SpecChannels == InitChannels /\ [][NextConv]_vars

(* C2: whenever the input's channel count differs from the filter bank's   *)
(* channel dimension, ConvLayer.Forward fails with a shape-mismatch error: *)
(* no output tensor, no result from the channels both have, no index out   *)
(* of bounds.                                                              *)
ChannelMismatchRejected ==
    (op = "conv" /\ len(cl.Filters[0]) # len(x)) => ret.status = ShapeMismatch

-----------------------------------------------------------------------------
(* Calls of ConvLayer.Forward and MaxPoolLayer.Forward with any            *)
(* configuration: strides, kernel sizes and pool sizes that are zero or    *)
(* negative, windows larger than the input.  The channel counts agree.     *)

ShapeKernels == 0..2
ShapeStrides == (-1)..2
ShapePools == (-1)..3

InitConfig ==
    /\ dl = << >>
    /\ \E c \in ShapeDims, hh \in ShapeDims, w \in ShapeDims :
         /\ heap = TensorHeap(1, c, hh, w)
         /\ Idle(TensorRefs(c), 0, 0, "off")
         /\ \/ /\ mpl = << >>
               /\ \E kh \in ShapeKernels, kw \in ShapeKernels,
                     stride \in ShapeStrides, p \in 0..1 :
                    cl = [Filters |-> FiltersOf(1, 1, c, kh, kw), Biases |-> BiasesOf(1, 1),
                          Stride |-> stride, Padding |-> p]
            \/ /\ cl = << >>
               /\ \E k \in ShapePools, stride \in ShapeStrides :
                    mpl = [PoolSize |-> k, Stride |-> stride]

NextConfig ==
    \/ NextConv
    \/ NextPool

SpecConfig == InitConfig /\ [][NextConfig]_vars

NonPositiveOut(n, p, k, s) == s > 0 /\ ((n + 2 * p - k) \div s) + 1 <= 0

ConvConfigInvalid ==
    \/ cl.Stride <= 0
    \/ len(cl.Filters[0][0]) = 0
    \/ len(cl.Filters[0][0][0]) = 0
    \/ NonPositiveOut(len(heap[x[0]]), cl.Padding, len(cl.Filters[0][0]), cl.Stride)
    \/ NonPositiveOut(len(heap[x[0]][0]), cl.Padding, len(cl.Filters[0][0][0]), cl.Stride)

PoolConfigInvalid ==
    \/ mpl.Stride <= 0
    \/ mpl.PoolSize <= 0
    \/ NonPositiveOut(len(heap[x[0]]), 0, mpl.PoolSize, mpl.Stride)
    \/ NonPositiveOut(len(heap[x[0]][0]), 0, mpl.PoolSize, mpl.Stride)

(* C4: ConvLayer.Forward and MaxPoolLayer.Forward fail with an             *)
(* invalid-configuration error whenever the stride is <= 0, the pool size  *)
(* or a kernel dimension is <= 0, or floor((size + 2*padding - kernel) /   *)
(* stride) + 1 is <= 0 for height or width; they return no tensor, divide  *)
(* by no zero and index no grid outside its bounds.                        *)
InvalidConfigRejected ==
    /\ (op = "conv" /\ ConvConfigInvalid) => ret.status = InvalidConfiguration
    /\ (op = "pool" /\ PoolConfigInvalid) => ret.status = InvalidConfiguration

-----------------------------------------------------------------------------
(* Sequences of Forward calls on the four layers, the caller keeping each  *)
(* result or not, as main does with x = layer.Forward(x).                  *)

ChainSizes == {2, 3}

InitChain ==
    \E s \in Seeds, p \in 0..MaxPad, n \in ChainSizes :
        /\ heap = <<GridOf(s, 0, n, n), VectorOf(s, 2)>>
        /\ Idle(TensorRefs(1), 2, 0, "off")
        /\ cl = [Filters |-> FiltersOf(s, 1, 1, 2, 2), Biases |-> BiasesOf(s, 1),
                 Stride |-> 1, Padding |-> p]
        /\ mpl = [PoolSize |-> 2, Stride |-> 1]
        /\ dl = [Weights |-> WeightsOf(s, 2, 2), Biases |-> BiasesOf(s, 2)]

\* x = <layer>.Forward(x): the caller keeps the tensor returned.
TakeTensor ==
    /\ op \in {"conv", "pool"} /\ ret.status = OK /\ x # ret.val
    /\ x' = ret.val
    /\ UNCHANGED <<heap, cl, mpl, dl, vec, padding, ret, op, calls, rng, pc, net, stdout>>

\* flatX := flat.Forward(x): the caller keeps the vector returned.
TakeVector ==
    /\ op \in {"flatten", "dense"} /\ ret.status = OK /\ vec # ret.val
    /\ vec' = ret.val
    /\ UNCHANGED <<heap, cl, mpl, dl, x, padding, ret, op, calls, rng, pc, net, stdout>>

NextChain ==
    \/ CallConv
    \/ CallPool
    \/ CallFlatten
    \/ CallDense
    \/ TakeTensor
    \/ TakeVector

SpecChain == InitChain /\ [][NextChain]_vars

(* C10: no Forward call changes a layer's parameters or the contents of    *)
(* any grid or vector that existed before the call, the caller's inputs    *)
(* among them; this includes ConvLayer.Forward with Padding = 0, where     *)
(* pad2D hands back the caller's own grid.                                 *)
ForwardFramed ==
    [][/\ cl' = cl /\ mpl' = mpl /\ dl' = dl
       /\ \A a \in DOMAIN heap : a \in DOMAIN heap' /\ heap'[a] = heap[a]]_vars

\* A second or later call of the convolution without padding, on a grid with
\* a negative cell, has returned.
ConvUnpaddedCalled ==
    /\ op = "conv" /\ cl.Padding = 0 /\ ret.status = OK /\ calls >= 2
    /\ \E i \in DOMAIN heap[x[0]] : \E j \in DOMAIN heap[x[0]][i] : heap[x[0]][i][j] < 0
    /\ ret.val # x

-----------------------------------------------------------------------------
(* main: the pipeline conv1, pool1, conv2, pool2, flat, dense1, dense2 on  *)
(* a 1-channel 28x28 image, with weights drawn from the random generator.  *)

ImageSize == 28
Conv1Filters == 3
Conv2Filters == 5
KernelSize == 3
PoolWindow == 2
Dense1Size == 128
Dense2Size == 10

\* rand.NormFloat64() * 0.1: the k-th number of the stream of a seed, as a
\* small value of either sign.
NormFloat64(seed, k) == (((k * k + seed * k + seed) % 11) % 3) - 1

\* randomArray(size): size numbers taken from the generator, in order.
randomArray(r, size) ==
    [val |-> Make(size, LAMBDA i : NormFloat64(r.seed, r.pos + i)),
     rng |-> [r EXCEPT !.pos = r.pos + size]]

\* randomMatrix(rows, cols): one randomArray(cols) per row, in order.
randomMatrix(r, rows, cols) ==
    [val |-> Make(rows, LAMBDA i : Make(cols, LAMBDA j :
                NormFloat64(r.seed, r.pos + i * cols + j))),
     rng |-> [r EXCEPT !.pos = r.pos + rows * cols]]

\* randomFilters(num, channels, height, width): one randomArray(width) per
\* filter, channel and kernel row, in order.
randomFilters(r, num, channels, height, width) ==
    [val |-> Make(num, LAMBDA f : Make(channels, LAMBDA c : Make(height, LAMBDA ky :
                Make(width, LAMBDA kx :
                  NormFloat64(r.seed, r.pos + ((f * channels + c) * height + ky) * width + kx))))),
     rng |-> [r EXCEPT !.pos = r.pos + num * channels * height * width]]

\* The grey level of the resized image at (x, y), normalised: 0 or 1 here.
\* Image 0 is white; image n is a chequerboard of n x n squares.
Pixel(img, y, xx) == IF img = 0 THEN 1 ELSE ((xx \div img) + (y \div img)) % 2

Images == {0, 1, 2}

\* printDimensions(label, x)
printDimensions(h, label, t) ==
    [label |-> label, channels |-> len(t), height |-> len(h[t[0]]),
     width |-> len(h[t[0]][0])]

\* After the input tensor and the layers conv1, pool1, conv2, pool2 and flat
\* are built; or the image could not be opened or decoded and main panicked.
InitMain ==
    /\ cl = << >> /\ mpl = << >> /\ dl = << >>
    /\ padding = 0 /\ op = "none" /\ calls = 0 /\ stdout = << >>
    /\ vec = 0
    /\ \/ /\ heap = << >> /\ x = << >> /\ net = << >>
          /\ rng = [seed |-> 0, pos |-> 0]
          /\ ret = [status |-> "panic: open android_Ninja.png", val |-> << >>]
          /\ pc = "exit"
       \/ \E img \in Images, seed \in 0..MaxSeed :
            LET r0 == [seed |-> seed, pos |-> 0]
                f1 == randomFilters(r0, Conv1Filters, 1, KernelSize, KernelSize)
                b1 == randomArray(f1.rng, Conv1Filters)
                f2 == randomFilters(b1.rng, Conv2Filters, Conv1Filters, KernelSize, KernelSize)
                b2 == randomArray(f2.rng, Conv2Filters)
            IN  /\ heap = <<Make(ImageSize, LAMBDA y : Make(ImageSize, LAMBDA xx : Pixel(img, y, xx)))>>
                /\ x = [c \in 0..0 |-> 1]
                /\ net = [conv1 |-> [Filters |-> f1.val, Biases |-> b1.val, Stride |-> 1, Padding |-> 1],
                          pool1 |-> [PoolSize |-> PoolWindow, Stride |-> 2],
                          conv2 |-> [Filters |-> f2.val, Biases |-> b2.val, Stride |-> 1, Padding |-> 1],
                          pool2 |-> [PoolSize |-> PoolWindow, Stride |-> 2],
                          dense1 |-> << >>, dense2 |-> << >>]
                /\ rng = b2.rng
                /\ ret = [status |-> OK, val |-> << >>]
                /\ pc = "conv1"

\* x = <layer>.Forward(x); printDimensions(label, x).  A panic ends main.
TensorStage(at, kind, r, label, next) ==
    /\ pc = at
    /\ op' = kind
    /\ calls' = calls + 1
    /\ heap' = r.heap
    /\ ret' = [status |-> r.status, val |-> r.val]
    /\ IF r.status = OK
       THEN /\ x' = r.val
            /\ stdout' = Append(stdout, printDimensions(r.heap, label, r.val))
            /\ pc' = next
       ELSE /\ pc' = "exit"
            /\ UNCHANGED <<x, stdout>>
    /\ UNCHANGED <<cl, mpl, dl, vec, padding, rng, net>>

MainConv1 ==
    TensorStage("conv1", "conv", ConvLayer_Forward(heap, net.conv1, x), "After conv1", "pool1")

MainPool1 ==
    TensorStage("pool1", "pool", MaxPoolLayer_Forward(heap, net.pool1, x), "After pool1", "conv2")

MainConv2 ==
    TensorStage("conv2", "conv", ConvLayer_Forward(heap, net.conv2, x), "After conv2", "pool2")

MainPool2 ==
    TensorStage("pool2", "pool", MaxPoolLayer_Forward(heap, net.pool2, x), "After pool2", "flat")

\* <vector> := <layer>.Forward(<argument>).  A panic ends main.
VectorStage(at, kind, r, next) ==
    /\ pc = at
    /\ op' = kind
    /\ calls' = calls + 1
    /\ heap' = r.heap
    /\ ret' = [status |-> r.status, val |-> r.val]
    /\ IF r.status = OK
       THEN vec' = r.val /\ pc' = next
       ELSE pc' = "exit" /\ UNCHANGED vec
    /\ UNCHANGED <<cl, mpl, dl, x, padding, rng, net>>

\* flatX := flat.Forward(x); fmt.Printf("Flattened size: %d\n", len(flatX))
MainFlat ==
    /\ LET r == FlattenLayer_Forward(heap, x)
       IN  /\ VectorStage("flat", "flatten", r, "newDense1")
           /\ stdout' = IF r.status = OK
                        THEN Append(stdout, [label |-> "Flattened size", size |-> len(r.heap[r.val])])
                        ELSE stdout

\* dense1 := &DenseLayer{Weights: randomMatrix(128, len(flatX)), Biases: randomArray(128)}
MainNewDense1 ==
    /\ pc = "newDense1"
    /\ LET w == randomMatrix(rng, Dense1Size, len(heap[vec]))
           b == randomArray(w.rng, Dense1Size)
       IN  /\ net' = [net EXCEPT !.dense1 = [Weights |-> w.val, Biases |-> b.val]]
           /\ rng' = b.rng
    /\ pc' = "dense1"
    /\ UNCHANGED <<heap, cl, mpl, dl, x, vec, padding, ret, op, calls, stdout>>

\* denseOut := dense1.Forward(flatX)
MainDense1 ==
    /\ VectorStage("dense1", "dense", DenseLayer_Forward(heap, net.dense1, vec), "newDense2")
    /\ UNCHANGED stdout

\* dense2 := &DenseLayer{Weights: randomMatrix(10, 128), Biases: randomArray(10)}
MainNewDense2 ==
    /\ pc = "newDense2"
    /\ LET w == randomMatrix(rng, Dense2Size, Dense1Size)
           b == randomArray(w.rng, Dense2Size)
       IN  /\ net' = [net EXCEPT !.dense2 = [Weights |-> w.val, Biases |-> b.val]]
           /\ rng' = b.rng
    /\ pc' = "dense2"
    /\ UNCHANGED <<heap, cl, mpl, dl, x, vec, padding, ret, op, calls, stdout>>

\* output := dense2.Forward(denseOut); fmt.Println("Final output:", output)
MainDense2 ==
    /\ LET r == DenseLayer_Forward(heap, net.dense2, vec)
       IN  /\ VectorStage("dense2", "dense", r, "exit")
           /\ stdout' = IF r.status = OK
                        THEN Append(stdout, [label |-> "Final output", output |-> r.heap[r.val]])
                        ELSE stdout

NextMain ==
    \/ MainConv1
    \/ MainPool1
    \/ MainConv2
    \/ MainPool2
    \/ MainFlat
    \/ MainNewDense1
    \/ MainDense1
    \/ MainNewDense2
    \/ MainDense2

SpecMain == InitMain /\ [][NextMain]_vars

Shape(t) == <<len(t), len(heap[t[0]]), len(heap[t[0]][0])>>

Columns(layer) == {len(layer.Weights[i]) : i \in DOMAIN layer.Weights}

StageLabels ==
    <<"After conv1", "After pool1", "After conv2", "After pool2",
      "Flattened size", "Final output">>

\* The stage about to run is the n-th call, follows a call of kind last that
\* returned, and gets what that call returned.
After(n, last, held) ==
    /\ calls = n /\ op = last /\ ret.status = OK /\ held = ret.val
    /\ Len(stdout) <= Len(StageLabels)
    /\ \A i \in 1..Len(stdout) : stdout[i].label = StageLabels[i]

(* C8: in main's pipeline on the 1-channel 28x28 input the stages run once *)
(* each in the order conv1, pool1, conv2, pool2, flatten, dense1, dense2,  *)
(* each on the previous stage's output; at every boundary the shape        *)
(* delivered is the one the next layer is built for (conv2's filters have  *)
(* pool1's 3 channels, dense1 has 5*7*7 = 245 weight columns, dense2 has   *)
(* dense1's 128); the final output has 10 scores.                          *)
MainPipelineCorrect ==
    /\ pc = "conv1" =>
         /\ calls = 0 /\ stdout = << >>
         /\ Shape(x) = <<1, 28, 28>> /\ len(net.conv1.Filters[0]) = 1
    /\ pc = "pool1" =>
         /\ After(1, "conv", x) /\ Len(stdout) = 1
         /\ Shape(x) = <<3, 28, 28>>
    /\ pc = "conv2" =>
         /\ After(2, "pool", x) /\ Len(stdout) = 2
         /\ Shape(x) = <<3, 14, 14>> /\ len(net.conv2.Filters[0]) = 3
    /\ pc = "pool2" =>
         /\ After(3, "conv", x) /\ Len(stdout) = 3
         /\ Shape(x) = <<5, 14, 14>>
    /\ pc = "flat" =>
         /\ After(4, "pool", x) /\ Len(stdout) = 4
         /\ Shape(x) = <<5, 7, 7>>
    /\ pc \in {"newDense1", "dense1"} =>
         /\ After(5, "flatten", vec) /\ Len(stdout) = 5
         /\ len(heap[vec]) = 5 * 7 * 7 /\ len(heap[vec]) = 245
         /\ stdout[5].size = 245
    /\ pc = "dense1" =>
         /\ len(net.dense1.Weights) = 128 /\ len(net.dense1.Biases) = 128
         /\ Columns(net.dense1) = {len(heap[vec])}
    /\ pc \in {"newDense2", "dense2"} =>
         /\ After(6, "dense", vec) /\ Len(stdout) = 5
         /\ len(heap[vec]) = 128
    /\ pc = "dense2" =>
         /\ len(net.dense2.Weights) = 10 /\ len(net.dense2.Biases) = 10
         /\ Columns(net.dense2) = {len(heap[vec])}
    /\ (pc = "exit" /\ calls > 0) =>
         /\ After(7, "dense", vec) /\ Len(stdout) = 6
         /\ len(heap[vec]) = 10
         /\ stdout[6].output = heap[vec]

MainFinished ==
    /\ pc = "exit" /\ calls = 7 /\ ret.status = OK
    /\ len(heap[vec]) = 10
    /\ \E i \in DOMAIN heap[vec] : heap[vec][i] > 0

=============================================================================
